---- MODULE Spec2Model ----
(***************************************************************************)
(* Session control core of the Fabits MCP server (auth.ts): TokenManager   *)
(* (credential store with an in-memory cache over a token file), the       *)
(* module-level single-flight refresh promise, silentRefreshToken, the     *)
(* axios response interceptor of createAuthenticatedClient and the         *)
(* explicit refreshAccessToken tool.                                       *)
(*                                                                         *)
(* One step of the model is one run of JavaScript between two real         *)
(* suspension points (file read, file write, HTTP call, timer): promise    *)
(* continuations that are already runnable execute in the same step as     *)
(* the event that made them runnable.                                      *)
(***************************************************************************)
EXTENDS Naturals, Integers, Sequences, FiniteSets, TLC

\* ---------------------------------------------------------------- bounds
MaxCalls == 2        \* tool calls in one run: wrapped requests and fabits_refresh_token calls
MaxAttempts == 4     \* largest maxAttempts handed to a poll

\* ------------------------------------------------------ program constants
maxRetries_slow == 3 + 1
maxRetries == 3

\* ------------------------------------------------------------- universes
Managers == {"mA", "mB"}
Files    == {"fA", "fB"}
Requests == 1..MaxCalls
Drivers  == Requests        \* a refresh closure is named after the request that created it
Explicit == 1..MaxCalls
Logouts  == 1..MaxCalls

NULL   == [kind |-> "null"]     \* JavaScript null
Absent == <<>>            \* missing or empty string field (falsy)
NoFile == [kind |-> "nofile"]   \* token file missing or unparsable

\* the subject a token file belongs to (auth_<userId>.json)
SubjectOf(f) == IF f = "fA" THEN "A" ELSE "B"

\* bearer credential: a JWT issued for subject s, serial g, in one of the
\* shapes decodeJWT distinguishes
Jwt(s, g, shape) == <<"jwt", s, g, shape>>
\* renewal credential
Rt(s, g) == <<"rt", s, g>>

\* the successful answers considered: <<shape of the new bearer credential,
\* whether a new renewal credential comes with it>>
Grants == {<<"full", TRUE>>, <<"part", FALSE>>, <<"opaque", TRUE>>}

\* decodeJWT: three segments with a JSON payload decode to the payload's
\* claims; anything else decodes to {} (every claim undefined)
NoClaims == [phoneNumber |-> Absent, uid |-> Absent, panNumber |-> Absent]

decodeJWT(t) ==
  IF t = Absent \/ t[4] = "opaque" THEN NoClaims
  ELSE IF t[4] = "part"
       THEN [phoneNumber |-> <<"ph", t[2], t[3]>>, uid |-> Absent, panNumber |-> Absent]
       ELSE [phoneNumber |-> <<"ph", t[2], t[3]>>,
             uid         |-> <<"uid", t[2], t[3]>>,
             panNumber   |-> <<"pan", t[2], t[3]>>]

\* JavaScript a || b on string-or-undefined operands
Or(a, b) == IF a # Absent THEN a ELSE b

\* AuthToken records
EmptyObj == [token |-> Absent, refreshToken |-> Absent, phoneNumber |-> Absent,
             clientCode |-> Absent, panNumber |-> Absent]

LoginRecord(s, withRefresh) ==
  [token        |-> Jwt(s, 0, "full"),
   refreshToken |-> IF withRefresh THEN Rt(s, 0) ELSE Absent,
   phoneNumber  |-> <<"ph", s, 0>>,
   clientCode   |-> <<"uid", s, 0>>,
   panNumber    |-> <<"pan", s, 0>>]

\* ------------------------------------------------------------------ state
VARIABLES
  tokenFile,            \* TokenManager.tokenFile of each manager instance
  cachedToken,          \* TokenManager.cachedToken of each manager instance
  file,                 \* content of each token file
  refreshTokenPromise,  \* the module-level shared promise (NoPromise or a closure)
  req,                  \* wrapped requests
  drv,                  \* bodies of the refreshTokenPromise async closures
  exp,                  \* refreshAccessToken calls
  expiredSeen,          \* history: a caller on this manager was told that the
                        \* renewal credential expired, and no record was
                        \* saved to the manager's file since
  lo,                   \* logout calls
  cl,                   \* the long-lived wrapped client of each manager
  trip,                 \* one saveToken / loadToken round trip
  poll,                 \* one poll invocation
  li                    \* one login (verifyOTP or activateAccount)

\* session control: credential stores, shared promise, requests, renewals
authVars == <<tokenFile, cachedToken, file, refreshTokenPromise, req, drv, exp, expiredSeen>>

vars == <<tokenFile, cachedToken, file, refreshTokenPromise, req, drv, exp, expiredSeen,
          lo, cl, trip, poll, li>>

\* the variables that requests and renewals never touch
otherVars == <<lo, cl, trip, poll, li>>

NoPromise == 0

IdleReq == [pc |-> "idle", mgr |-> "mA", hdr |-> Absent, retry |-> FALSE, sends |-> 0,
            promise |-> NoPromise, sample |-> NULL, result |-> "none",
            firstHdr |-> Absent, renews |-> 0]

UnusedDrv == [pc |-> "unused", mgr |-> "mA", tokenData |-> NULL, sample |-> NULL,
              attempt |-> 0, calls |-> 0, data |-> NULL, outcome |-> Absent]

UnusedExp == [pc |-> "unused", mgr |-> "mA", tokenData |-> NULL, sample |-> NULL,
              data |-> NULL, result |-> "none"]

UnusedLo == [pc |-> "unused", mgr |-> "mA", sample |-> NULL, remote |-> 0, result |-> "none"]

NoClient == [pc |-> "none", hdr |-> Absent, sample |-> NULL]

NoRoundTrip == [pc |-> "unused"]

NoPoll == [pc |-> "unused"]

NoLogin == [pc |-> "unused", mgr |-> "mA"]

\* nothing but requests and renewals takes part in a run
OthersIdle ==
  /\ lo = [l \in Logouts |-> UnusedLo]
  /\ cl = [m \in Managers |-> NoClient]
  /\ trip = NoRoundTrip
  /\ poll = NoPoll
  /\ li = NoLogin

\* one token file per user id (auth_<userId>.json), each written by an
\* earlier login that returned a renewal credential
FileLayouts == { [m \in Managers |-> IF m = "mA" THEN "fA" ELSE "fB"] }

InitialContents(f) == {LoginRecord(SubjectOf(f), TRUE)}

Init ==
  /\ tokenFile \in FileLayouts
  /\ cachedToken = [m \in Managers |-> NULL]
  /\ file \in [Files -> UNION {InitialContents(f) : f \in Files}]
  /\ \A f \in Files : file[f] \in InitialContents(f)
  /\ refreshTokenPromise = NoPromise
  /\ req = [r \in Requests |-> IdleReq]
  /\ drv = [p \in Drivers |-> UnusedDrv]
  /\ exp = [e \in Explicit |-> UnusedExp]
  /\ expiredSeen = [m \in Managers |-> FALSE]
  /\ OthersIdle

\* tool calls started so far
Started == Cardinality({r \in Requests : req[r].pc # "idle"})
           + Cardinality({e \in Explicit : exp[e].pc # "unused"})
           + Cardinality({l \in Logouts : lo[l].pc # "unused"})

\* the managers are constructed alike; the first tool call of a run is
\* taken to be on mA
UsableManager(m) == m = "mA" \/ Started > 0

\* ----------------------------------------------------------- TokenManager

\* loadToken on a cache miss: the value the read of the file resolves to
LoadResult(sample) == IF sample = NoFile THEN NULL ELSE sample

\* loadToken on a cache miss: the cache after the read resolved
CacheAfterLoad(cache, m, sample) ==
  IF sample = NoFile THEN cache ELSE [cache EXCEPT ![m] = sample]

\* requireToken's test on the loaded record
HasNoToken(tokenData) == tokenData = NULL \/ tokenData.token = Absent

\* what a requireToken() that starts now resolves to (Absent: it throws
\* 'Not authenticated')
RequireTokenNow(m) ==
  LET tokenData == IF cachedToken[m] # NULL THEN cachedToken[m]
                   ELSE LoadResult(file[tokenFile[m]])
  IN  IF HasNoToken(tokenData) THEN Absent ELSE tokenData.token

\* history bookkeeping of a saveToken on file f
SeenAfterSave(seen, f) == [m \in Managers |-> IF tokenFile[m] = f THEN FALSE ELSE seen[m]]

\* ------------------------------------------------- remote renewal endpoint

Statuses == {200, 400, 401, 403, 500}   \* 500: any failure that is none of the others

\* answers of POST /authserver/api/auth/refresh to a call presenting rt;
\* g is the serial of the credentials it would issue
RenewalResponses(rt, g) ==
  { [status |-> 200, access_token |-> Jwt(rt[2], g, gr[1]),
     refresh_token |-> IF gr[2] THEN Rt(rt[2], g) ELSE Absent] : gr \in Grants }
  \cup { [status |-> st, access_token |-> Absent, refresh_token |-> Absent] : st \in Statuses }

\* the replacement record both renewal paths build
updatedAuthToken_keepold(data, tokenData) ==
  [token        |-> data.access_token,
   refreshToken |-> tokenData.refreshToken,
   phoneNumber  |-> Or(decodeJWT(data.access_token).phoneNumber, tokenData.phoneNumber),
   clientCode   |-> Or(decodeJWT(data.access_token).uid, tokenData.clientCode),
   panNumber    |-> Or(decodeJWT(data.access_token).panNumber, tokenData.panNumber)]
updatedAuthToken(data, tokenData) ==
  [token        |-> data.access_token,
   refreshToken |-> Or(data.refresh_token, tokenData.refreshToken),
   phoneNumber  |-> Or(decodeJWT(data.access_token).phoneNumber, tokenData.phoneNumber),
   clientCode   |-> Or(decodeJWT(data.access_token).uid, tokenData.clientCode),
   panNumber    |-> Or(decodeJWT(data.access_token).panNumber, tokenData.panNumber)]

\* silentRefreshToken's catch block: hard auth errors and bad requests
IsHardAuthError_401only(status) == status = 401
IsHardAuthError(status) == status = 401 \/ status = 403

IsBadRequest(status) == status = 400

\* message of the axios error of a failed call
ErrorMessage(status) == "REQUEST_FAILED"

\* the interceptor's test on the renewal error
IsRefreshTokenExpired_any(msg) == msg \in {"REFRESH_TOKEN_EXPIRED", "REFRESH_FAILED", "REQUEST_FAILED"}
IsRefreshTokenExpired(msg) == msg = "REFRESH_TOKEN_EXPIRED"

\* classification of a failed renewal, as the interceptor acts on it
Classify(msg) == IF IsRefreshTokenExpired(msg) THEN "RenewalCredentialExpired" ELSE "RenewalFailed"

\* ------------------------------------------- single-flight renewal promise

\* silentRefreshToken's test 'if (refreshTokenPromise)'
RefreshInProgress_never == FALSE
RefreshInProgress == refreshTokenPromise # NoPromise

\* the interceptor's test: an authorization failure not retried yet
ShouldRefresh_anyError(status, retry) == status # 200 /\ ~retry
ShouldRefresh_nomark(status, retry) == status = 401 \/ status = 403
ShouldRefresh(status, retry) == (status = 401 \/ status = 403) /\ ~retry

\* 'return Promise.reject(error)': what the caller gets for a response the
\* interceptor does not handle
PassThrough_wrapped(status) ==
  IF status = 401 \/ status = 403 THEN "SessionExpired" ELSE "rawError"
PassThrough(status) ==
  IF status = 401 \/ status = 403 THEN "rawAuthError" ELSE "rawError"

\* the tool call of request q ends with result res
Finish(q, res) == [IdleReq EXCEPT !.pc = "done", !.mgr = q.mgr, !.result = res]

\* continuation of one interceptor after 'await silentRefreshToken(...)'
\* resolved with a new bearer: the original request is sent again
AfterRenewed(q, newToken) ==
  [q EXCEPT !.hdr = newToken, !.pc = "sent", !.sends = @ + 1]

\* continuation of one interceptor after the promise rejected with msg:
\* clearToken() nulls the cache and starts the write of '{}', or the
\* 'Access Token Expired' error is thrown at once
AfterRenewFailed(q, msg) ==
  IF IsRefreshTokenExpired(msg)
  THEN [q EXCEPT !.pc = "clearing"]
  ELSE Finish(q, "AccessTokenExpired")

IsWaiter(q, p) == q.pc = "awaitRenew" /\ q.promise = p

\* the promise of closure p settles: every interceptor awaiting it continues
SettleReq(rq, p, outcome) ==
  [r \in Requests |->
     IF IsWaiter(rq[r], p)
     THEN IF outcome[1] = "ok" THEN AfterRenewed(rq[r], outcome[2])
                               ELSE AfterRenewFailed(rq[r], outcome[2])
     ELSE rq[r]]

\* the synchronous part of clearToken() run by the waiters' catch blocks
SettleCache(cache, rq, p, outcome) ==
  [m \in Managers |->
     IF /\ outcome[1] = "err"
        /\ IsRefreshTokenExpired(outcome[2])
        /\ \E r \in Requests : IsWaiter(rq[r], p) /\ rq[r].mgr = m
     THEN NULL ELSE cache[m]]

\* a closure that has ended keeps only how its promise settled
Retired(d) ==
  IF d.pc = "settled"
  THEN [UnusedDrv EXCEPT !.pc = "settled", !.mgr = d.mgr, !.outcome = d.outcome]
  ELSE d

\* the closure after 'await tokenManager.loadToken()': no renewal
\* credential rejects the promise, otherwise attempt 1 is posted
DrvAfterLoad(d, tokenData) ==
  IF tokenData = NULL \/ tokenData.refreshToken = Absent
  THEN [d EXCEPT !.pc = "settled", !.outcome = <<"err", "REFRESH_TOKEN_MISSING">>]
  ELSE [d EXCEPT !.pc = "inTransit", !.tokenData = tokenData, !.attempt = 1, !.calls = 1]

\* a new closure for manager m: loadToken() answers from the cache in the
\* same step, or starts reading the file
NewDriver(m) ==
  IF cachedToken[m] # NULL
  THEN DrvAfterLoad([UnusedDrv EXCEPT !.mgr = m], cachedToken[m])
  ELSE [UnusedDrv EXCEPT !.mgr = m, !.pc = "reading", !.sample = file[tokenFile[m]]]

\* 'finally { refreshTokenPromise = null }' once the closure has ended
PromiseAfter_keep(d, p) == p
PromiseAfter(d, p) == IF d.pc = "settled" THEN NoPromise ELSE p

\* ------------------------------------------------------- Request Executor

\* createAuthenticatedClient after requireToken's loadToken resolved, and
\* the first send of the request
ReqAfterLoad(q, tokenData) ==
  IF HasNoToken(tokenData)
  THEN Finish(q, "NotAuthenticated")
  ELSE [q EXCEPT !.pc = "sent", !.hdr = tokenData.token, !.firstHdr = tokenData.token,
                 !.sends = 1]

\* a tool call creates an authenticated client on manager m
ReqStart(r, m) ==
  /\ req[r].pc = "idle"
  /\ \A q \in Requests : q < r => req[q].pc # "idle"
  /\ Started < MaxCalls
  /\ UsableManager(m)
  /\ IF cachedToken[m] # NULL
     THEN req' = [req EXCEPT ![r] = ReqAfterLoad([@ EXCEPT !.mgr = m], cachedToken[m])]
     ELSE req' = [req EXCEPT ![r] = [@ EXCEPT !.mgr = m, !.pc = "reading",
                                                !.sample = file[tokenFile[m]]]]
  /\ UNCHANGED <<tokenFile, cachedToken, file, refreshTokenPromise, drv, exp, expiredSeen>>
  /\ UNCHANGED otherVars

\* requireToken's read of the token file resolves
ReqReadDone(r) ==
  /\ req[r].pc = "reading"
  /\ cachedToken' = CacheAfterLoad(cachedToken, req[r].mgr, req[r].sample)
  /\ req' = [req EXCEPT ![r] = ReqAfterLoad([@ EXCEPT !.sample = NULL], LoadResult(req[r].sample))]
  /\ UNCHANGED <<tokenFile, file, refreshTokenPromise, drv, exp, expiredSeen>>
  /\ UNCHANGED otherVars

RequestStatuses == {200, 401, 403, 404, 500}   \* 404: any other 4xx; 500: 5xx, network failure

\* the remote platform answers the request: a first 401/403 marks the
\* request and awaits silentRefreshToken, which joins the promise in
\* flight or creates one; everything else goes to the caller
ReqResponse(r, status) ==
  /\ req[r].pc = "sent"
  /\ IF ShouldRefresh(status, req[r].retry)
     THEN IF RefreshInProgress
          THEN /\ req' = [req EXCEPT ![r] = [@ EXCEPT !.retry = TRUE, !.pc = "awaitRenew",
                                                     !.promise = refreshTokenPromise,
                                                     !.renews = @ + 1]]
               /\ UNCHANGED <<drv, refreshTokenPromise, cachedToken>>
          ELSE LET d  == NewDriver(req[r].mgr)
                   rq == [req EXCEPT ![r] = [@ EXCEPT !.retry = TRUE, !.pc = "awaitRenew",
                                                     !.promise = r, !.renews = @ + 1]]
               IN  /\ drv' = [drv EXCEPT ![r] = Retired(d)]
                   /\ refreshTokenPromise' = PromiseAfter(d, r)
                   /\ req' = IF d.pc = "settled" THEN SettleReq(rq, r, d.outcome) ELSE rq
                   /\ cachedToken' = IF d.pc = "settled"
                                     THEN SettleCache(cachedToken, rq, r, d.outcome)
                                     ELSE cachedToken
     ELSE /\ req' = [req EXCEPT ![r] = Finish(@, IF status = 200 THEN "ok" ELSE PassThrough(status))]
          /\ UNCHANGED <<drv, refreshTokenPromise, cachedToken>>
  /\ UNCHANGED <<tokenFile, file, exp, expiredSeen>>
  /\ UNCHANGED otherVars

\* the interceptor's clearToken() write of '{}' completes and the
\* 'Session Expired' error is thrown to the caller
ReqClearDone(r) ==
  /\ req[r].pc = "clearing"
  /\ file' = [file EXCEPT ![tokenFile[req[r].mgr]] = EmptyObj]
  /\ req' = [req EXCEPT ![r] = Finish(@, "SessionExpired")]
  /\ expiredSeen' = [expiredSeen EXCEPT ![req[r].mgr] = TRUE]
  /\ UNCHANGED <<tokenFile, cachedToken, refreshTokenPromise, drv, exp>>
  /\ UNCHANGED otherVars

\* ----------------------------------------------------- silentRefreshToken

\* the closure's read of the token file resolves
DrvReadDone(p) ==
  /\ drv[p].pc = "reading"
  /\ LET d == DrvAfterLoad([drv[p] EXCEPT !.sample = NULL], LoadResult(drv[p].sample))
         c == CacheAfterLoad(cachedToken, drv[p].mgr, drv[p].sample)
     IN  /\ drv' = [drv EXCEPT ![p] = Retired(d)]
         /\ refreshTokenPromise' = PromiseAfter(d, refreshTokenPromise)
         /\ req' = IF d.pc = "settled" THEN SettleReq(req, p, d.outcome) ELSE req
         /\ cachedToken' = IF d.pc = "settled" THEN SettleCache(c, req, p, d.outcome) ELSE c
  /\ UNCHANGED <<tokenFile, file, exp, expiredSeen>>
  /\ UNCHANGED otherVars

\* end of a failed attempt that the catch block does not rethrow: the loop
\* goes on to the pause of the next attempt, or ends and lastError is thrown
NextAttempt(d, msg) ==
  IF d.attempt < maxRetries
  THEN [d EXCEPT !.pc = "pause", !.attempt = @ + 1]
  ELSE [d EXCEPT !.pc = "settled", !.outcome = <<"err", msg>>]

\* the closure after the renewal call of one attempt was answered
DrvAfterResponse(d, resp) ==
  IF resp.status = 200
  THEN IF resp.access_token = Absent
       THEN NextAttempt(d, "REFRESH_FAILED")
       ELSE [d EXCEPT !.pc = "saving", !.data = resp]
  ELSE IF IsHardAuthError(resp.status)
       THEN [d EXCEPT !.pc = "settled", !.outcome = <<"err", "REFRESH_TOKEN_EXPIRED">>]
  ELSE IF IsBadRequest(resp.status)
       THEN [d EXCEPT !.pc = "settled", !.outcome = <<"err", "REFRESH_FAILED">>]
  ELSE NextAttempt(d, ErrorMessage(resp.status))

\* the remote platform answers the renewal call in transit
DrvResponse(p, resp) ==
  /\ drv[p].pc = "inTransit"
  /\ LET d == DrvAfterResponse(drv[p], resp)
     IN  /\ drv' = [drv EXCEPT ![p] = Retired(d)]
         /\ refreshTokenPromise' = PromiseAfter(d, refreshTokenPromise)
         /\ req' = IF d.pc = "settled" THEN SettleReq(req, p, d.outcome) ELSE req
         /\ cachedToken' = IF d.pc = "settled"
                           THEN SettleCache(cachedToken, req, p, d.outcome) ELSE cachedToken
  /\ UNCHANGED <<tokenFile, file, exp, expiredSeen>>
  /\ UNCHANGED otherVars

\* the one second pause before attempt 2 and 3 ends: the call is posted
DrvPauseDone(p) ==
  /\ drv[p].pc = "pause"
  /\ drv' = [drv EXCEPT ![p] = [@ EXCEPT !.pc = "inTransit", !.calls = @ + 1]]
  /\ UNCHANGED <<tokenFile, cachedToken, file, refreshTokenPromise, req, exp, expiredSeen>>
  /\ UNCHANGED otherVars

\* saveToken's write completes: file and cache hold the replacement
\* record, the promise resolves with the new bearer credential
DrvSaved(p) ==
  /\ drv[p].pc = "saving"
  /\ LET rec == updatedAuthToken(drv[p].data, drv[p].tokenData)
         d   == [drv[p] EXCEPT !.pc = "settled", !.outcome = <<"ok", rec.token>>]
     IN  /\ drv' = [drv EXCEPT ![p] = Retired(d)]
         /\ file' = [file EXCEPT ![tokenFile[d.mgr]] = rec]
         /\ cachedToken' = [cachedToken EXCEPT ![d.mgr] = rec]
         /\ refreshTokenPromise' = PromiseAfter(d, refreshTokenPromise)
         /\ req' = SettleReq(req, p, d.outcome)
         /\ expiredSeen' = SeenAfterSave(expiredSeen, tokenFile[d.mgr])
  /\ UNCHANGED <<tokenFile, exp>>
  /\ UNCHANGED otherVars

\* ----------------------------------------------------- refreshAccessToken

\* serial of the credentials issued to explicit call e
ExpSerial(e) == MaxCalls + e

\* the tool call of explicit renewal x ends with result res
ExpFinish(x, res) == [UnusedExp EXCEPT !.pc = "done", !.mgr = x.mgr, !.result = res]

\* refreshAccessToken's test for a rejected renewal credential
IsRefreshRejected(status) == status = 401 \/ status = 403

ExpAfterLoad(x, tokenData) ==
  IF tokenData = NULL \/ tokenData.refreshToken = Absent
  THEN ExpFinish(x, "NoRefreshToken")
  ELSE [x EXCEPT !.pc = "inTransit", !.tokenData = tokenData]

\* tool fabits_refresh_token on manager m
ExpStart(e, m) ==
  /\ exp[e].pc = "unused"
  /\ \A q \in Explicit : q < e => exp[q].pc # "unused"
  /\ Started < MaxCalls
  /\ UsableManager(m)
  /\ IF cachedToken[m] # NULL
     THEN exp' = [exp EXCEPT ![e] = ExpAfterLoad([@ EXCEPT !.mgr = m], cachedToken[m])]
     ELSE exp' = [exp EXCEPT ![e] = [@ EXCEPT !.mgr = m, !.pc = "reading",
                                                !.sample = file[tokenFile[m]]]]
  /\ UNCHANGED <<tokenFile, cachedToken, file, refreshTokenPromise, req, drv, expiredSeen>>
  /\ UNCHANGED otherVars

\* refreshAccessToken's read of the token file resolves
ExpReadDone(e) ==
  /\ exp[e].pc = "reading"
  /\ cachedToken' = CacheAfterLoad(cachedToken, exp[e].mgr, exp[e].sample)
  /\ exp' = [exp EXCEPT ![e] = ExpAfterLoad([@ EXCEPT !.sample = NULL], LoadResult(exp[e].sample))]
  /\ UNCHANGED <<tokenFile, file, refreshTokenPromise, req, drv, expiredSeen>>
  /\ UNCHANGED otherVars

\* the remote platform answers the explicit renewal call
ExpResponse(e, resp) ==
  /\ exp[e].pc = "inTransit"
  /\ IF resp.status = 200
     THEN /\ exp' = [exp EXCEPT ![e] =
                       IF resp.access_token = Absent
                       THEN ExpFinish(@, "FailedToRefresh")
                       ELSE [@ EXCEPT !.pc = "saving", !.data = resp]]
          /\ UNCHANGED cachedToken
     ELSE IF IsRefreshRejected(resp.status)
     THEN /\ exp' = [exp EXCEPT ![e] = [@ EXCEPT !.pc = "clearing", !.tokenData = NULL]]
          /\ cachedToken' = [cachedToken EXCEPT ![exp[e].mgr] = NULL]
     ELSE /\ exp' = [exp EXCEPT ![e] = ExpFinish(@, "TokenRefreshFailed")]
          /\ UNCHANGED cachedToken
  /\ UNCHANGED <<tokenFile, file, refreshTokenPromise, req, drv, expiredSeen>>
  /\ UNCHANGED otherVars

\* saveToken's write completes
ExpSaved(e) ==
  /\ exp[e].pc = "saving"
  /\ LET rec == updatedAuthToken(exp[e].data, exp[e].tokenData)
     IN  /\ file' = [file EXCEPT ![tokenFile[exp[e].mgr]] = rec]
         /\ cachedToken' = [cachedToken EXCEPT ![exp[e].mgr] = rec]
  /\ exp' = [exp EXCEPT ![e] = ExpFinish(@, "ok")]
  /\ expiredSeen' = SeenAfterSave(expiredSeen, tokenFile[exp[e].mgr])
  /\ UNCHANGED <<tokenFile, refreshTokenPromise, req, drv>>
  /\ UNCHANGED otherVars

\* clearToken()'s write of '{}' completes; 'Refresh token expired' is thrown
ExpClearDone(e) ==
  /\ exp[e].pc = "clearing"
  /\ file' = [file EXCEPT ![tokenFile[exp[e].mgr]] = EmptyObj]
  /\ exp' = [exp EXCEPT ![e] = ExpFinish(@, "RefreshTokenExpired")]
  /\ expiredSeen' = [expiredSeen EXCEPT ![exp[e].mgr] = TRUE]
  /\ UNCHANGED <<tokenFile, cachedToken, refreshTokenPromise, req, drv>>
  /\ UNCHANGED otherVars

\* ---------------------------------------------------------- specification
Next ==
  \/ \E r \in Requests, m \in Managers : ReqStart(r, m)
  \/ \E r \in Requests : ReqReadDone(r)
  \/ \E r \in Requests, st \in RequestStatuses : ReqResponse(r, st)
  \/ \E r \in Requests : ReqClearDone(r)
  \/ \E p \in Drivers : DrvReadDone(p)
  \/ \E p \in Drivers :
        /\ drv[p].pc = "inTransit"
        /\ \E resp \in RenewalResponses(drv[p].tokenData.refreshToken, p) : DrvResponse(p, resp)
  \/ \E p \in Drivers : DrvPauseDone(p)
  \/ \E p \in Drivers : DrvSaved(p)
  \/ \E e \in Explicit, m \in Managers : ExpStart(e, m)
  \/ \E e \in Explicit : ExpReadDone(e)
  \/ \E e \in Explicit :
        /\ exp[e].pc = "inTransit"
        /\ \E resp \in RenewalResponses(exp[e].tokenData.refreshToken, ExpSerial(e)) :
              ExpResponse(e, resp)
  \/ \E e \in Explicit : ExpSaved(e)
  \/ \E e \in Explicit : ExpClearDone(e)

Spec == Init /\ [][Next]_vars

\* ----------------------------------------------------------------- logout

\* outcomes of POST /logout: 200, a rejection, any other failure
LogoutStatuses == {200, 401, 500}

\* logout's inner catch (apiError): whether the local clearing goes ahead
\* after the remote call ended with this status
LogoutProceeds_onSuccess(status) == status = 200
LogoutProceeds(status) == TRUE

\* logout after 'await tokenManager.loadToken()': without a bearer
\* credential it returns 'Not logged in', otherwise it posts the remote call
LoAfterLoad_throws(x, tokenData) ==
  IF HasNoToken(tokenData)
  THEN [UnusedLo EXCEPT !.pc = "done", !.mgr = x.mgr, !.result = "LogoutFailed"]
  ELSE [x EXCEPT !.pc = "inTransit"]
LoAfterLoad(x, tokenData) ==
  IF HasNoToken(tokenData)
  THEN [UnusedLo EXCEPT !.pc = "done", !.mgr = x.mgr, !.result = "notLoggedIn"]
  ELSE [x EXCEPT !.pc = "inTransit"]

\* tool fabits_logout on manager m
LoStart(l, m) ==
  /\ lo[l].pc = "unused"
  /\ \A q \in Logouts : q < l => lo[q].pc # "unused"
  /\ Started < MaxCalls
  /\ UsableManager(m)
  /\ IF cachedToken[m] # NULL
     THEN lo' = [lo EXCEPT ![l] = LoAfterLoad([@ EXCEPT !.mgr = m], cachedToken[m])]
     ELSE lo' = [lo EXCEPT ![l] = [@ EXCEPT !.mgr = m, !.pc = "reading",
                                              !.sample = file[tokenFile[m]]]]
  /\ UNCHANGED <<tokenFile, cachedToken, file, refreshTokenPromise, req, drv, exp, expiredSeen>>
  /\ UNCHANGED <<cl, trip, poll, li>>

\* logout's read of the token file resolves
LoReadDone(l) ==
  /\ lo[l].pc = "reading"
  /\ cachedToken' = CacheAfterLoad(cachedToken, lo[l].mgr, lo[l].sample)
  /\ lo' = [lo EXCEPT ![l] = LoAfterLoad([@ EXCEPT !.sample = NULL], LoadResult(lo[l].sample))]
  /\ UNCHANGED <<tokenFile, file, refreshTokenPromise, req, drv, exp, expiredSeen>>
  /\ UNCHANGED <<cl, trip, poll, li>>

\* the remote logout call ends: clearToken() nulls the cache and starts
\* the write of '{}'
LoResponse(l, status) ==
  /\ lo[l].pc = "inTransit"
  /\ IF LogoutProceeds(status)
     THEN /\ cachedToken' = [cachedToken EXCEPT ![lo[l].mgr] = NULL]
          /\ lo' = [lo EXCEPT ![l] = [@ EXCEPT !.pc = "clearing", !.remote = status]]
     ELSE /\ lo' = [lo EXCEPT ![l] = [@ EXCEPT !.pc = "done", !.remote = status,
                                              !.result = "LogoutFailed"]]
          /\ UNCHANGED cachedToken
  /\ UNCHANGED <<tokenFile, file, refreshTokenPromise, req, drv, exp, expiredSeen>>
  /\ UNCHANGED <<cl, trip, poll, li>>

\* clearToken()'s write completes; 'Logged Out Successfully' is returned
LoClearDone(l) ==
  /\ lo[l].pc = "clearing"
  /\ file' = [file EXCEPT ![tokenFile[lo[l].mgr]] = EmptyObj]
  /\ lo' = [lo EXCEPT ![l] = [@ EXCEPT !.pc = "done", !.result = "ok"]]
  /\ UNCHANGED <<tokenFile, cachedToken, refreshTokenPromise, req, drv, exp, expiredSeen>>
  /\ UNCHANGED <<cl, trip, poll, li>>

\* wrapped requests, automatic renewal and logout
LogoutNext ==
  \/ \E r \in Requests, m \in Managers : ReqStart(r, m)
  \/ \E r \in Requests : ReqReadDone(r)
  \/ \E r \in Requests, st \in RequestStatuses : ReqResponse(r, st)
  \/ \E r \in Requests : ReqClearDone(r)
  \/ \E p \in Drivers : DrvReadDone(p)
  \/ \E p \in Drivers :
        /\ drv[p].pc = "inTransit"
        /\ \E resp \in RenewalResponses(drv[p].tokenData.refreshToken, p) : DrvResponse(p, resp)
  \/ \E p \in Drivers : DrvPauseDone(p)
  \/ \E p \in Drivers : DrvSaved(p)
  \/ \E l \in Logouts, m \in Managers : LoStart(l, m)
  \/ \E l \in Logouts : LoReadDone(l)
  \/ \E l \in Logouts, st \in LogoutStatuses : LoResponse(l, st)
  \/ \E l \in Logouts : LoClearDone(l)

LogoutSpec == Init /\ [][LogoutNext]_vars

\* ------------------------------------------- one client, several requests

\* createAuthenticatedClient's outcome once requireToken has its value: the
\* bearer is written into the instance's default headers
ClAfterLoad(tokenData) ==
  IF HasNoToken(tokenData)
  THEN [pc |-> "failed", hdr |-> Absent, sample |-> NULL]
  ELSE [pc |-> "ready", hdr |-> tokenData.token, sample |-> NULL]

\* a tool (an order, a mandate set-up) creates its wrapped client on manager m
ClCreate(m) ==
  /\ cl[m].pc = "none"
  /\ m = "mA" \/ cl["mA"].pc # "none"
  /\ IF cachedToken[m] # NULL
     THEN cl' = [cl EXCEPT ![m] = ClAfterLoad(cachedToken[m])]
     ELSE cl' = [cl EXCEPT ![m] = [pc |-> "reading", hdr |-> Absent,
                                   sample |-> file[tokenFile[m]]]]
  /\ UNCHANGED authVars
  /\ UNCHANGED <<lo, trip, poll, li>>

\* requireToken's read of the token file resolves
ClReadDone(m) ==
  /\ cl[m].pc = "reading"
  /\ cachedToken' = CacheAfterLoad(cachedToken, m, cl[m].sample)
  /\ cl' = [cl EXCEPT ![m] = ClAfterLoad(LoadResult(cl[m].sample))]
  /\ UNCHANGED <<tokenFile, file, refreshTokenPromise, req, drv, exp, expiredSeen>>
  /\ UNCHANGED <<lo, trip, poll, li>>

\* the Authorization header of a request's first send: the instance's
\* default, whatever the store holds by now
FirstSendHeader(c) == c.hdr

\* the tool issues its next request (a step of the set-up, a probe of a
\* poll) through the client it holds
ReqViaClient(r, m) ==
  /\ cl[m].pc = "ready"
  /\ req[r].pc = "idle"
  /\ \A q \in Requests : q < r => req[q].pc # "idle"
  /\ Started < MaxCalls
  /\ req' = [req EXCEPT ![r] = [@ EXCEPT !.mgr = m, !.pc = "sent", !.sends = 1,
                                         !.hdr = FirstSendHeader(cl[m]),
                                         !.firstHdr = FirstSendHeader(cl[m])]]
  /\ UNCHANGED <<tokenFile, cachedToken, file, refreshTokenPromise, drv, exp, expiredSeen>>
  /\ UNCHANGED <<lo, cl, trip, poll, li>>

ClientNext ==
  \/ \E m \in Managers : ClCreate(m)
  \/ \E m \in Managers : ClReadDone(m)
  \/ \E r \in Requests, m \in Managers : ReqViaClient(r, m)
  \/ \E r \in Requests, st \in RequestStatuses : ReqResponse(r, st)
  \/ \E r \in Requests : ReqClearDone(r)
  \/ \E p \in Drivers : DrvReadDone(p)
  \/ \E p \in Drivers :
        /\ drv[p].pc = "inTransit"
        /\ \E resp \in RenewalResponses(drv[p].tokenData.refreshToken, p) : DrvResponse(p, resp)
  \/ \E p \in Drivers : DrvPauseDone(p)
  \/ \E p \in Drivers : DrvSaved(p)

ClientSpec == Init /\ [][ClientNext]_vars

\* --------------------------------------- saveToken / loadToken round trip

\* the fields of an AuthToken that the program writes, in the order of the
\* object literals
FieldOrder == <<"token", "refreshToken", "phoneNumber", "clientCode", "panNumber">>

Fields == {FieldOrder[i] : i \in 1..Len(FieldOrder)}

\* JavaScript values a field can hold: they come from a JSON response, a
\* decoded JWT payload or the caller's phone number
Undefined == [t |-> "undefined"]
JsNull == [t |-> "null"]
Str(s) == [t |-> "string", v |-> s]
Num(n) == [t |-> "number", n |-> n]

FieldValues == {Undefined, JsNull, Str(""), Str("null"), Num(7)}

\* JSON.stringify of a field value: the literal it prints
Literal(v) ==
  CASE v.t = "null"   -> <<"null">>
    [] v.t = "string" -> <<"quoted", v.v>>
    [] v.t = "number" -> <<"digits", v.n>>

\* JSON.stringify(token, null, 2): one member per own property in order;
\* a property whose value is undefined is left out
RECURSIVE Members(_, _)
Members(o, keys) ==
  IF keys = <<>> THEN <<>>
  ELSE IF o[Head(keys)] = Undefined THEN Members(o, Tail(keys))
       ELSE <<<<Head(keys), Literal(o[Head(keys)])>>>> \o Members(o, Tail(keys))

Stringify(o) == Members(o, FieldOrder)

\* JSON.parse of a literal
ValueOf(lit) ==
  CASE lit[1] = "null"   -> JsNull
    [] lit[1] = "quoted" -> Str(lit[2])
    [] lit[1] = "digits" -> Num(lit[2])

\* JSON.parse(data): an object with one property per member
Parse(text) ==
  [k \in {text[i][1] : i \in 1..Len(text)} |->
     ValueOf(text[CHOOSE i \in 1..Len(text) : text[i][1] = k][2])]

\* reading a property of an object: undefined when the object has none
Get(o, k) == IF k \in DOMAIN o THEN o[k] ELSE Undefined

\* an object none of whose fields is set
EmptyToken == [k \in Fields |-> Undefined]

\* the records a caller can hand to saveToken
TokenRecords == [Fields -> FieldValues]

\* a token about to be saved on a cleared store ('{}') whose manager has
\* nothing cached
TripStart(token) ==
  [pc |-> "start", token |-> token, text |-> Stringify(EmptyToken), cache |-> NULL,
   reader |-> "none", got |-> NULL]

RoundTripInit ==
  /\ tokenFile \in FileLayouts
  /\ cachedToken = [m \in Managers |-> NULL]
  /\ file \in [Files -> UNION {InitialContents(f) : f \in Files}]
  /\ \A f \in Files : file[f] \in InitialContents(f)
  /\ refreshTokenPromise = NoPromise
  /\ req = [r \in Requests |-> IdleReq]
  /\ drv = [p \in Drivers |-> UnusedDrv]
  /\ exp = [e \in Explicit |-> UnusedExp]
  /\ expiredSeen = [m \in Managers |-> FALSE]
  /\ lo = [l \in Logouts |-> UnusedLo]
  /\ cl = [m \in Managers |-> NoClient]
  /\ poll = NoPoll
  /\ li = NoLogin
  /\ trip \in {TripStart(token) : token \in TokenRecords}

\* saveToken: the file is written, then the object is cached
TripSave ==
  /\ trip.pc = "start"
  /\ trip' = [trip EXCEPT !.pc = "saved", !.text = Stringify(trip.token),
                          !.cache = trip.token]
  /\ UNCHANGED authVars
  /\ UNCHANGED <<lo, cl, poll, li>>

\* saveToken: mkdir or writeFile rejects, 'Failed to save token' is thrown
TripSaveFails ==
  /\ trip.pc = "start"
  /\ trip' = [trip EXCEPT !.pc = "failed"]
  /\ UNCHANGED authVars
  /\ UNCHANGED <<lo, cl, poll, li>>

\* loadToken of the writing manager ("writer": the cached object, if any)
\* or of a new TokenManager on the same file ("fresh": read and parse)
TripLoad(who) ==
  /\ trip.pc = "saved"
  /\ trip' = [trip EXCEPT !.pc = "loaded", !.reader = who,
                          !.got = IF who = "writer" /\ trip.cache # NULL
                                  THEN trip.cache
                                  ELSE Parse(trip.text)]
  /\ UNCHANGED authVars
  /\ UNCHANGED <<lo, cl, poll, li>>

RoundTripNext ==
  \/ TripSave
  \/ TripSaveFails
  \/ \E who \in {"writer", "fresh"} : TripLoad(who)

RoundTripSpec == RoundTripInit /\ [][RoundTripNext]_vars

\* ---------------------------------- pollPaymentStatus / pollMandateStatus

PollKinds == {"payment", "mandate"}

\* a string of the payment gateway, by the markers it contains
Marked(ms) == [t |-> "string", marks |-> ms]

\* response.data of POST PAYMENT_STATUS: null, or an object with a status
\* word and a data field (absent, null, a number, a string)
PaymentBodies ==
  {JsNull} \cup
  [status : {Str("SUCCESS"), Str("FAILURE"), Str("PENDING"), Undefined},
   data   : {Undefined, JsNull, Num(7)} \cup {Marked(ms) : ms \in SUBSET {"100|", "101|"}}]

\* x?.includes(marker): undefined on null and undefined, a TypeError
\* ("raise") on a value without the method
Includes(x, marker) ==
  IF x \in {Undefined, JsNull} THEN "undefined"
  ELSE IF x.t # "string" THEN "raise"
  ELSE IF marker \in x.marks THEN "true" ELSE "false"

\* what one pass of a poll's try block comes to, other than a result to
\* return: the wait of a pending answer, or an error thrown inside the block
PassPending == [pass |-> "pending"]
PassRaise == [pass |-> "raise"]

\* one pass of pollPaymentStatus's try block over the body of the answer
PaymentPass(body) ==
  IF body = JsNull THEN PassRaise
  ELSE IF body.status = Str("SUCCESS") /\ Includes(body.data, "100|") = "raise" THEN PassRaise
  ELSE IF body.status = Str("SUCCESS") /\ Includes(body.data, "100|") = "true"
       THEN [success |-> TRUE, status |-> Str("APPROVED"), data |-> body.data]
  ELSE IF body.status = Str("FAILURE") /\ Includes(body.data, "101|") = "raise" THEN PassRaise
  ELSE IF body.status = Str("FAILURE") /\ Includes(body.data, "101|") = "true"
       THEN [success |-> FALSE, status |-> Str("REJECTED"), data |-> body.data]
  ELSE PassPending

MandateWords == {Str("RECEIVED BY EXCHANGE"), Str("APPROVED"), Str("UNDER PROCESSING"),
                 Str("FAILED"), Str("REJECTED"), Str("NEW")}

\* MandateDetails[0] of an answer: absent, or an object with a status
Details == {Undefined} \cup [status : MandateWords \cup {Undefined}]

\* response.data of POST MANDATE_DETAILS: null, or MandateDetails at the top
\* level, MandateDetails inside data, and data.mandateStatus
MandateBodies ==
  {JsNull} \cup
  [top : Details, nested : Details, mandateStatus : MandateWords \cup {Undefined}]

\* response.data?.MandateDetails?.[0] || response.data?.data?.MandateDetails?.[0]
mandateDetails(body) ==
  IF body = JsNull THEN Undefined
  ELSE IF body.top # Undefined THEN body.top ELSE body.nested

\* mandateDetails?.status || response.data?.data?.mandateStatus
mandateStatus(body) ==
  IF body = JsNull THEN Undefined
  ELSE IF mandateDetails(body) # Undefined /\ mandateDetails(body).status # Undefined
       THEN mandateDetails(body).status
       ELSE body.mandateStatus

\* mandateDetails || response.data.data
MandateData(body) ==
  IF mandateDetails(body) # Undefined THEN mandateDetails(body)
  ELSE [nested |-> body.nested, mandateStatus |-> body.mandateStatus]

MandatePass_approvedOnly(body) ==
  IF mandateStatus(body) = Str("APPROVED")
  THEN [success |-> TRUE, status |-> mandateStatus(body), data |-> MandateData(body)]
  ELSE IF mandateStatus(body) \in {Str("FAILED"), Str("REJECTED")}
  THEN [success |-> FALSE, status |-> mandateStatus(body), data |-> MandateData(body)]
  ELSE PassPending

\* one pass of pollMandateStatus's try block over the body of the answer
MandatePass(body) ==
  IF mandateStatus(body) \in {Str("RECEIVED BY EXCHANGE"), Str("APPROVED"),
                              Str("UNDER PROCESSING")}
  THEN [success |-> TRUE, status |-> mandateStatus(body), data |-> MandateData(body)]
  ELSE IF mandateStatus(body) \in {Str("FAILED"), Str("REJECTED")}
  THEN [success |-> FALSE, status |-> mandateStatus(body), data |-> MandateData(body)]
  ELSE PassPending

Bodies(kind) == IF kind = "payment" THEN PaymentBodies ELSE MandateBodies

Pass(kind, body) == IF kind = "payment" THEN PaymentPass(body) ELSE MandatePass(body)

\* the value returned after the loop
TimeoutResult == [success |-> FALSE, status |-> Str("TIMEOUT"), data |-> Str("timeout")]

NoResult == [success |-> FALSE, status |-> Undefined, data |-> Undefined]

\* for (attempt ...; attempt <= maxAttempts; ...): the next probe is sent, or
\* the loop is left and TIMEOUT returned
LoopHead_strict(q) ==
  IF q.attempt < q.maxAttempts
  THEN [q EXCEPT !.pc = "probing", !.probes = @ + 1]
  ELSE [q EXCEPT !.pc = "returned", !.result = TimeoutResult]

LoopHead(q) ==
  IF q.attempt <= q.maxAttempts
  THEN [q EXCEPT !.pc = "probing", !.probes = @ + 1]
  ELSE [q EXCEPT !.pc = "returned", !.result = TimeoutResult]

Caught_rethrow(q) == [q EXCEPT !.pc = "raised"]

Caught_noConsume(q) ==
  [q EXCEPT !.pc = "waiting", !.waits = @ + 1, !.caught = @ + 1, !.attempt = @ - 1]

\* catch (error) { ...; await new Promise(setTimeout) }
Caught(q) == [q EXCEPT !.pc = "waiting", !.waits = @ + 1, !.caught = @ + 1]

Return_afterWait(q, out) ==
  [q EXCEPT !.pc = "returned", !.result = out, !.waits = @ + 1]

\* return { success, status, data } inside the loop
Return(q, out) == [q EXCEPT !.pc = "returned", !.result = out]

\* the locals of a poll at its first loop test; caller is the tool that
\* awaits it ("none": the poll taken by itself)
NewPoll(kind, maxAttempts, caller) ==
  [pc |-> "start", kind |-> kind, maxAttempts |-> maxAttempts,
   attempt |-> 1, probes |-> 0, waits |-> 0, caught |-> 0,
   result |-> NoResult, caller |-> caller, shown |-> "none"]

\* a tool calls the poll with the client it holds
PollStart(kind, maxAttempts) ==
  /\ poll.pc = "unused"
  /\ poll' = LoopHead(NewPoll(kind, maxAttempts, "none"))
  /\ UNCHANGED authVars
  /\ UNCHANGED <<lo, cl, trip, li>>

\* client.post resolves with an answer and the rest of the try block runs
PollAnswer(body) ==
  /\ poll.pc = "probing"
  /\ body \in Bodies(poll.kind)
  /\ LET out == Pass(poll.kind, body)
     IN  poll' = IF out = PassRaise THEN Caught(poll)
                 ELSE IF out = PassPending
                      THEN [poll EXCEPT !.pc = "waiting", !.waits = @ + 1]
                      ELSE Return(poll, out)
  /\ UNCHANGED authVars
  /\ UNCHANGED <<lo, cl, trip, li>>

\* client.post rejects: a status the executor passes through, a network
\* failure, a session that could not be renewed
PollError ==
  /\ poll.pc = "probing"
  /\ poll' = Caught(poll)
  /\ UNCHANGED authVars
  /\ UNCHANGED <<lo, cl, trip, li>>

\* the timer of the wait fires: attempt++ and the loop test
PollWaitDone ==
  /\ poll.pc = "waiting"
  /\ poll' = LoopHead([poll EXCEPT !.attempt = @ + 1])
  /\ UNCHANGED authVars
  /\ UNCHANGED <<lo, cl, trip, li>>

PollNext ==
  \/ \E kind \in PollKinds, maxAttempts \in 0..MaxAttempts : PollStart(kind, maxAttempts)
  \/ \E body \in PaymentBodies \cup MandateBodies : PollAnswer(body)
  \/ PollError
  \/ PollWaitDone

PollSpec == Init /\ [][PollNext]_vars

\* ------------------------------------------------- the callers of a poll

\* the tools that await a poll: checkPaymentStatus, setupBasketMandate, and
\* the order tools of the earlier revision of the investment module
Callers == {"checkPaymentStatus", "setupBasketMandate", "order"}

CallerKind(caller) == IF caller = "setupBasketMandate" THEN "mandate" ELSE "payment"

\* maxAttempts of the call: 1 for the single check, 60 (here: the bound) else
CallerAttempts(caller) == IF caller = "checkPaymentStatus" THEN 1 ELSE MaxAttempts

\* checkPaymentStatus: if (success) ... else if (status === 'REJECTED') ... else
RenderCheck(result) ==
  IF result.success THEN "Success"
  ELSE IF result.status = Str("REJECTED") THEN "Failed"
  ELSE "Pending"

RenderMandate_noTimeout(result) ==
  IF result.success THEN "Success" ELSE "Failed"

\* setupBasketMandate: if (success) ... else if (status === 'TIMEOUT') ... else
RenderMandate(result) ==
  IF result.success THEN "Success"
  ELSE IF result.status = Str("TIMEOUT") THEN "Pending"
  ELSE "Failed"

\* the order tools: if (success) ... else if (status === 'TIMEOUT') ... else
RenderOrder(result) ==
  IF result.success THEN "Success"
  ELSE IF result.status = Str("TIMEOUT") THEN "Pending"
  ELSE "Failed"

Render(caller, result) ==
  CASE caller = "checkPaymentStatus" -> RenderCheck(result)
    [] caller = "setupBasketMandate" -> RenderMandate(result)
    [] caller = "order"              -> RenderOrder(result)

\* a tool reaches its await of the poll
CallerStart(caller) ==
  /\ poll.pc = "unused"
  /\ poll' = LoopHead(NewPoll(CallerKind(caller), CallerAttempts(caller), caller))
  /\ UNCHANGED authVars
  /\ UNCHANGED <<lo, cl, trip, li>>

\* the poll's value reaches the tool, which builds its text from it
CallerRender ==
  /\ poll.pc = "returned"
  /\ poll.caller \in Callers
  /\ poll' = [poll EXCEPT !.pc = "rendered", !.shown = Render(poll.caller, poll.result)]
  /\ UNCHANGED authVars
  /\ UNCHANGED <<lo, cl, trip, li>>

CallerNext ==
  \/ \E caller \in Callers : CallerStart(caller)
  \/ \E body \in PaymentBodies \cup MandateBodies : PollAnswer(body)
  \/ PollError
  \/ PollWaitDone
  \/ CallerRender

CallerSpec == Init /\ [][CallerNext]_vars

\* ------------------------------------- a poll probing through its client

\* the manager whose client the polling tool holds
PollClient == "mA"

\* what the poll does with a probe that the Request Executor rejected with
\* result: the catch block, whatever the error is
AfterProbeRejected_stopOnFatal(q, result) ==
  IF result \in {"SessionExpired", "AccessTokenExpired"}
  THEN Return(q, TimeoutResult)
  ELSE Caught(q)

AfterProbeRejected(q, result) == Caught(q)

\* the tool has created its client and calls the poll
ProbeBegin(kind, maxAttempts) ==
  /\ cl[PollClient].pc = "ready"
  /\ PollStart(kind, maxAttempts)

\* client.post of the current probe: a wrapped request through the client
ProbeSend ==
  /\ poll.pc = "probing"
  /\ ReqViaClient(poll.probes, PollClient)

\* the wrapped request of the current probe resolved with an answer
ProbeAnswered(body) ==
  /\ poll.pc = "probing"
  /\ req[poll.probes].pc = "done"
  /\ req[poll.probes].result = "ok"
  /\ PollAnswer(body)

\* the wrapped request of the current probe was rejected
ProbeRejected ==
  /\ poll.pc = "probing"
  /\ req[poll.probes].pc = "done"
  /\ req[poll.probes].result # "ok"
  /\ poll' = AfterProbeRejected(poll, req[poll.probes].result)
  /\ UNCHANGED authVars
  /\ UNCHANGED <<lo, cl, trip, li>>

ProbeNext ==
  \/ ClCreate(PollClient)
  \/ ClReadDone(PollClient)
  \/ \E kind \in PollKinds, maxAttempts \in 0..MaxCalls : ProbeBegin(kind, maxAttempts)
  \/ ProbeSend
  \/ \E r \in Requests, st \in RequestStatuses : ReqResponse(r, st)
  \/ \E r \in Requests : ReqClearDone(r)
  \/ \E p \in Drivers : DrvReadDone(p)
  \/ \E p \in Drivers :
        /\ drv[p].pc = "inTransit"
        /\ \E resp \in RenewalResponses(drv[p].tokenData.refreshToken, p) : DrvResponse(p, resp)
  \/ \E p \in Drivers : DrvPauseDone(p)
  \/ \E p \in Drivers : DrvSaved(p)
  \/ \E body \in PaymentBodies \cup MandateBodies : ProbeAnswered(body)
  \/ ProbeRejected
  \/ PollWaitDone

ProbeSpec == Init /\ [][ProbeNext]_vars

\* ------------------------------------ one store, several manager instances

\* the HTTP server constructs a TokenManager per tool call on the file of
\* the call's user id: two calls of one user run on two instances, one file
SharedLayout == [m \in Managers |-> "fA"]

SharedInit ==
  /\ tokenFile = SharedLayout
  /\ cachedToken = [m \in Managers |-> NULL]
  /\ file \in [Files -> UNION {InitialContents(f) : f \in Files}]
  /\ \A f \in Files : file[f] \in InitialContents(f)
  /\ refreshTokenPromise = NoPromise
  /\ req = [r \in Requests |-> IdleReq]
  /\ drv = [p \in Drivers |-> UnusedDrv]
  /\ exp = [e \in Explicit |-> UnusedExp]
  /\ expiredSeen = [m \in Managers |-> FALSE]
  /\ OthersIdle

SharedSpec == SharedInit /\ [][LogoutNext]_vars

\* ------------------------------------------------------------------ login

\* serial of the credentials a login issues, apart from those of the renewals
LoginSerial == MaxCalls + 1

\* the answer of the platform to a verified OTP, for subject s
LoginData(s) ==
  [status |-> 200, access_token |-> Jwt(s, LoginSerial, "full"),
   refresh_token |-> Rt(s, LoginSerial)]

\* verifyOTP / activateAccount: the record built from the answer
authToken(data, formattedPhone) ==
  [token        |-> data.access_token,
   refreshToken |-> data.refresh_token,
   phoneNumber  |-> Or(decodeJWT(data.access_token).phoneNumber, formattedPhone),
   clientCode   |-> decodeJWT(data.access_token).uid,
   panNumber    |-> decodeJWT(data.access_token).panNumber]

\* the record a completed login on file f leaves in the store
LoginResult(f) == authToken(LoginData(SubjectOf(f)), <<"ph", SubjectOf(f), LoginSerial>>)

\* fabits_verify_otp on manager m: the OTP is posted
LoginStart(m) ==
  /\ li.pc = "unused"
  /\ UsableManager(m)
  /\ li' = [pc |-> "inTransit", mgr |-> m]
  /\ UNCHANGED authVars
  /\ UNCHANGED <<lo, cl, trip, poll>>

\* the platform answers: with an access token the record is built and
\* saveToken started, otherwise 'Invalid OTP or login failed' is thrown
LoginResponse(ok) ==
  /\ li.pc = "inTransit"
  /\ li' = [li EXCEPT !.pc = IF ok THEN "saving" ELSE "failed"]
  /\ UNCHANGED authVars
  /\ UNCHANGED <<lo, cl, trip, poll>>

\* saveToken's write completes: file and cache hold the login's record
LoginSaved ==
  /\ li.pc = "saving"
  /\ file' = [file EXCEPT ![tokenFile[li.mgr]] = LoginResult(tokenFile[li.mgr])]
  /\ cachedToken' = [cachedToken EXCEPT ![li.mgr] = LoginResult(tokenFile[li.mgr])]
  /\ expiredSeen' = SeenAfterSave(expiredSeen, tokenFile[li.mgr])
  /\ li' = [li EXCEPT !.pc = "done"]
  /\ UNCHANGED <<tokenFile, refreshTokenPromise, req, drv, exp>>
  /\ UNCHANGED <<lo, cl, trip, poll>>

LoginNext ==
  \/ \E r \in Requests, m \in Managers : ReqStart(r, m)
  \/ \E r \in Requests : ReqReadDone(r)
  \/ \E r \in Requests, st \in RequestStatuses : ReqResponse(r, st)
  \/ \E r \in Requests : ReqClearDone(r)
  \/ \E p \in Drivers : DrvReadDone(p)
  \/ \E p \in Drivers :
        /\ drv[p].pc = "inTransit"
        /\ \E resp \in RenewalResponses(drv[p].tokenData.refreshToken, p) : DrvResponse(p, resp)
  \/ \E p \in Drivers : DrvPauseDone(p)
  \/ \E p \in Drivers : DrvSaved(p)
  \/ \E m \in Managers : LoginStart(m)
  \/ \E ok \in BOOLEAN : LoginResponse(ok)
  \/ LoginSaved

LoginSpec == Init /\ [][LoginNext]_vars

\* ------------------------------------------------------------ vocabulary

\* the closure's promise is pending
DrvActive(p) == drv[p].pc \in {"reading", "inTransit", "pause", "saving"}

\* outbound renewal calls in transit that belong to manager m
AutoInTransit(m) == {p \in Drivers : drv[p].pc = "inTransit" /\ drv[p].mgr = m}
ExplicitInTransit(m) == {e \in Explicit : exp[e].pc = "inTransit" /\ exp[e].mgr = m}

HardStatuses == {400, 401, 403}

\* steps left at most before the handling of request q ends, not counting
\* those of the renewal it awaits
ReqRank(q) ==
  CASE q.pc = "idle"       -> 7
    [] q.pc = "reading"    -> 6
    [] q.pc = "sent"       -> IF q.retry THEN 2 ELSE 5
    [] q.pc = "awaitRenew" -> 4
    [] q.pc = "clearing"   -> 1
    [] OTHER               -> 0

\* steps left at most before closure d ends
DrvRank(d) ==
  CASE d.pc = "unused"    -> 10
    [] d.pc = "reading"   -> 9
    [] d.pc = "inTransit" -> 2 * (4 - d.calls) + 1
    [] d.pc = "pause"     -> 2 * (4 - d.calls)
    [] d.pc = "saving"    -> 1
    [] OTHER              -> 0

\* ---------------------------------------------------------------- claims

\* C1: callers of silentRefreshToken that arrive while a renewal is in
\* flight start no second one (at most one closure is pending, and every
\* waiting caller holds the promise of that closure), and when the promise
\* settles all of its waiters continue with the same outcome: all are sent
\* again with the identical new bearer credential, or all fail alike.
C1_SingleFlight ==
  /\ [](/\ Cardinality({p \in Drivers : DrvActive(p)}) <= 1
        /\ \A r \in Requests :
              req[r].pc = "awaitRenew" =>
                 /\ req[r].promise = refreshTokenPromise
                 /\ req[r].promise # NoPromise
                 /\ DrvActive(req[r].promise))
  /\ [][\A r1, r2 \in Requests :
          (/\ req[r1].pc = "awaitRenew" /\ req[r2].pc = "awaitRenew"
           /\ req[r1].promise = req[r2].promise
           /\ req[r1].mgr = req[r2].mgr
           /\ req'[r1].pc # "awaitRenew")
          => /\ req'[r2].pc = req'[r1].pc
             /\ req'[r2].result = req'[r1].result
             /\ req'[r1].pc = "sent" =>
                   /\ req'[r2].hdr = req'[r1].hdr
                   /\ req'[r1].hdr = drv'[req[r1].promise].outcome[2]]_vars

\* two callers of one manager that shared one renewal are both sent again
\* with the same new bearer credential
C1_Witness ==
  \E r1, r2 \in Requests :
     /\ r1 # r2 /\ req[r1].mgr = req[r2].mgr
     /\ req[r1].pc = "sent" /\ req[r2].pc = "sent"
     /\ req[r1].retry /\ req[r2].retry
     /\ req[r1].promise = req[r2].promise
     /\ req[r1].hdr = req[r2].hdr /\ req[r1].hdr # req[r1].firstHdr

\* C2 (as stated): at most one outbound renewal call is in transit per
\* manager, counting the calls of silentRefreshToken and of
\* refreshAccessToken.
C2_OneRenewalInTransit ==
  \A m \in Managers : Cardinality(AutoInTransit(m)) + Cardinality(ExplicitInTransit(m)) <= 1

\* C3 (as stated): of the requests of one manager that were sent with the
\* same bearer credential and were each answered 401/403, all are served by
\* the one renewal that replaced that credential: when one of them was
\* already sent again with the renewed credential, another one that asks
\* for renewal holds the promise of that same renewal.
C3_RenewedOnce ==
  \A r1, r2 \in Requests :
     (/\ req[r1].mgr = req[r2].mgr
      /\ req[r1].firstHdr # Absent /\ req[r1].firstHdr = req[r2].firstHdr
      /\ req[r1].pc = "sent" /\ req[r1].retry /\ req[r1].hdr # req[r1].firstHdr
      /\ req[r2].renews = 1)
     => req[r2].promise = req[r1].promise

\* C4 (as stated): a caller awaits only a renewal of its own manager, and
\* the bearer credential a request of manager m is sent with was issued to
\* the subject of m's credential store.
C4_ScopedPerManager ==
  \A r \in Requests :
     /\ req[r].pc = "awaitRenew" => drv[req[r].promise].mgr = req[r].mgr
     /\ req[r].pc = "sent" => req[r].hdr[2] = SubjectOf(tokenFile[req[r].mgr])

\* C5: a request is sent at most twice and asks for renewal at most once,
\* whatever the answers are, and its handling ends: every step of a
\* request brings it nearer to its end (ReqRank decreases), and a request
\* that has not ended can take a step or awaits a pending renewal.
C5_AtMostOneRetry ==
  /\ [](\A r \in Requests : req[r].sends <= 2 /\ req[r].renews <= 1
                            /\ (req[r].sends = 2 => req[r].retry))
  /\ [][\A r \in Requests :
          req'[r] # req[r] => ReqRank(req'[r]) < ReqRank(req[r])]_vars
  /\ [](\A r \in Requests :
          req[r].pc \notin {"idle", "done"} =>
             \/ req[r].pc = "awaitRenew" /\ DrvActive(req[r].promise)
             \/ ENABLED (\/ ReqReadDone(r)
                          \/ \E st \in RequestStatuses : ReqResponse(r, st)
                          \/ ReqClearDone(r)))

\* a request sent for the second time after its one renewal
C5_Witness ==
  \E r \in Requests : req[r].pc = "sent" /\ req[r].sends = 2 /\ req[r].renews = 1

C7_ClearedBeforeError ==
  \A m \in Managers : expiredSeen[m] => RequireTokenNow(m) = Absent

\* C8: a renewal call answered 401, 403 or 400 ends the closure in that
\* step, on whichever attempt: it rejects with REFRESH_TOKEN_EXPIRED
\* (RenewalCredentialExpired) for 401/403 and with REFRESH_FAILED
\* (RenewalFailed) for 400, and a closure that has ended posts nothing more.
C8_HardErrorStopsRetries ==
  /\ [][\A p \in Drivers :
          drv[p].pc = "inTransit" =>
            \A resp \in RenewalResponses(drv[p].tokenData.refreshToken, p) :
               (resp.status \in HardStatuses /\ DrvResponse(p, resp))
               => /\ drv'[p].pc = "settled"
                  /\ drv'[p].outcome[1] = "err"
                  /\ Classify(drv'[p].outcome[2]) =
                        IF resp.status = 400 THEN "RenewalFailed"
                                             ELSE "RenewalCredentialExpired"
                  /\ refreshTokenPromise' = NoPromise]_vars
  /\ [][\A p \in Drivers : drv[p].pc = "settled" => drv'[p] = drv[p]]_vars

\* a renewal ended by a rejected renewal credential
C8_Witness ==
  \E p \in Drivers : drv[p].pc = "settled" /\ drv[p].outcome = <<"err", "REFRESH_TOKEN_EXPIRED">>

\* C9: a renewal posts at most 3 calls; a transient failure of call 1 or 2
\* leads to the pause before the next call, a transient failure of call 3
\* ends the renewal as RenewalFailed, a renewal ends with the transient
\* error only after call 3, and every renewal ends: each of its steps
\* brings it nearer to its end (DrvRank decreases) and a pending renewal
\* can always take a step.
C9_ThreeAttempts ==
  /\ [](\A p \in Drivers : drv[p].calls <= 3 /\ drv[p].attempt <= 3)
  /\ [][\A p \in Drivers :
          (drv[p].pc = "inTransit" /\ drv'[p].pc # "inTransit") =>
            \A resp \in RenewalResponses(drv[p].tokenData.refreshToken, p) :
               (resp.status = 500 /\ DrvResponse(p, resp))
               => IF drv[p].calls < 3
                  THEN drv'[p].pc = "pause" /\ drv'[p].calls = drv[p].calls
                  ELSE /\ drv'[p].pc = "settled"
                       /\ drv'[p].outcome = <<"err", ErrorMessage(500)>>
                       /\ Classify(drv'[p].outcome[2]) = "RenewalFailed"]_vars
  /\ [][\A p \in Drivers :
          (drv[p].pc = "pause" /\ drv'[p].pc # "pause")
          => drv'[p].pc = "inTransit" /\ drv'[p].calls = drv[p].calls + 1]_vars
  /\ [][\A p \in Drivers :
          (DrvActive(p) /\ drv'[p].pc = "settled"
           /\ drv'[p].outcome = <<"err", ErrorMessage(500)>>)
          => drv[p].calls = 3]_vars
  /\ [][\A p \in Drivers :
          drv'[p] # drv[p] => DrvRank(drv'[p]) < DrvRank(drv[p])]_vars
  /\ [](\A p \in Drivers :
          /\ drv[p].pc = "reading" => ENABLED DrvReadDone(p)
          /\ drv[p].pc = "inTransit" =>
               \E resp \in RenewalResponses(drv[p].tokenData.refreshToken, p) :
                  ENABLED DrvResponse(p, resp)
          /\ drv[p].pc = "pause" => ENABLED DrvPauseDone(p)
          /\ drv[p].pc = "saving" => ENABLED DrvSaved(p))

\* a renewal that failed after its calls failed transiently
C9_Witness ==
  \E p \in Drivers : drv[p].pc = "settled" /\ drv[p].outcome = <<"err", ErrorMessage(500)>>

\* C10: when the save of a successful renewal completes (in either renewal
\* path), file and cache of the manager hold the record made of the
\* returned bearer credential, the returned renewal credential or else the
\* one read at the start of the renewal, and the identity claims of the new
\* bearer credential or else the old values; requireToken() then returns
\* the new bearer credential.
C10_Expected(data, old) ==
  [token        |-> data.access_token,
   refreshToken |-> IF data.refresh_token # Absent THEN data.refresh_token
                    ELSE old.refreshToken,
   phoneNumber  |-> IF data.access_token[4] \in {"full", "part"}
                    THEN <<"ph", data.access_token[2], data.access_token[3]>>
                    ELSE old.phoneNumber,
   clientCode   |-> IF data.access_token[4] = "full"
                    THEN <<"uid", data.access_token[2], data.access_token[3]>>
                    ELSE old.clientCode,
   panNumber    |-> IF data.access_token[4] = "full"
                    THEN <<"pan", data.access_token[2], data.access_token[3]>>
                    ELSE old.panNumber]

C11_FailedRenewalKeepsRecord ==
  /\ [][\A p \in Drivers :
          (/\ drv[p].pc = "inTransit"
           /\ drv'[p].pc = "settled"
           /\ drv'[p].outcome \in {<<"err", "REFRESH_FAILED">>, <<"err", "REQUEST_FAILED">>})
          => UNCHANGED <<file, cachedToken>>]_vars
  /\ [][\A e \in Explicit :
          (/\ exp[e].pc = "inTransit"
           /\ exp'[e].pc = "done"
           /\ exp'[e].result \in {"TokenRefreshFailed", "FailedToRefresh"})
          => UNCHANGED <<file, cachedToken>>]_vars
  /\ [][\A f \in Files :
          file'[f] # file[f] =>
             \/ /\ file'[f] = EmptyObj
                /\ \/ \E r \in Requests : req[r].pc = "clearing" /\ tokenFile[req[r].mgr] = f
                   \/ \E e \in Explicit : exp[e].pc = "clearing" /\ tokenFile[exp[e].mgr] = f
             \/ /\ file'[f].token # Absent
                /\ \/ \E p \in Drivers : drv[p].pc = "saving" /\ tokenFile[drv[p].mgr] = f
                   \/ \E e \in Explicit : exp[e].pc = "saving" /\ tokenFile[exp[e].mgr] = f]_vars

\* a request ended with 'Access Token Expired' and its manager still holds
\* the record of the login
C11_Witness ==
  \E r \in Requests :
     /\ req[r].pc = "done" /\ req[r].result = "AccessTokenExpired"
     /\ cachedToken[req[r].mgr] = LoginRecord(SubjectOf(tokenFile[req[r].mgr]), TRUE)
     /\ file[tokenFile[req[r].mgr]] = cachedToken[req[r].mgr]

\* a logout on manager m has reported success
LoggedOut(m) == \E l \in Logouts : lo[l].pc = "done" /\ lo[l].result = "ok" /\ lo[l].mgr = m

\* the store of manager m is in the cleared state
Cleared(m) == file[tokenFile[m]] = EmptyObj /\ cachedToken[m] \in {NULL, EmptyObj}

\* C12 (as stated): once a logout on manager m has reported success, the
\* token file of m stays cleared (there is no login in these runs): a
\* renewal that was in transit during the logout writes no record.
C12_LogoutDiscardsRenewal ==
  \A m \in Managers : LoggedOut(m) => file[tokenFile[m]] = EmptyObj

\* C13: a logout that starts on a cleared store (right after an earlier
\* logout) raises no error, reports 'Not logged in', leaves the token file
\* '{}' and the store cleared, and requireToken() still fails after it.
C13_LogoutIdempotent ==
  /\ [][\A l \in Logouts, m \in Managers :
          (Cleared(m) /\ LoStart(l, m))
          => /\ Cleared(m)'
             /\ RequireTokenNow(m)' = Absent
             /\ \/ lo'[l].pc = "done" /\ lo'[l].result = "notLoggedIn"
                \/ lo'[l].pc = "reading" /\ lo'[l].sample = EmptyObj]_vars
  /\ [][\A l \in Logouts :
          (/\ lo[l].pc = "reading" /\ lo[l].sample = EmptyObj
           /\ Cleared(lo[l].mgr) /\ LoReadDone(l))
          => /\ Cleared(lo[l].mgr)'
             /\ RequireTokenNow(lo[l].mgr)' = Absent
             /\ lo'[l].pc = "done" /\ lo'[l].result = "notLoggedIn"]_vars
  /\ [][\A l \in Logouts :
          (lo[l].pc # "done" /\ lo'[l].pc = "done")
          => lo'[l].result \in {"ok", "notLoggedIn"}]_vars

\* a second logout ended on a manager that was logged out before, with the
\* store cleared
C13_Witness ==
  \E l1, l2 \in Logouts :
     /\ lo[l1].mgr = lo[l2].mgr
     /\ lo[l1].pc = "done" /\ lo[l1].result = "ok"
     /\ lo[l2].pc = "done" /\ lo[l2].result = "notLoggedIn"
     /\ Cleared(lo[l1].mgr)
     /\ RequireTokenNow(lo[l1].mgr) = Absent

LegacyInit ==
  /\ tokenFile \in FileLayouts
  /\ cachedToken = [m \in Managers |-> NULL]
  /\ file = [f \in Files |-> LoginRecord(SubjectOf(f), f # "fB")]
  /\ refreshTokenPromise = NoPromise
  /\ req = [r \in Requests |-> IdleReq]
  /\ drv = [p \in Drivers |-> UnusedDrv]
  /\ exp = [e \in Explicit |-> UnusedExp]
  /\ expiredSeen = [m \in Managers |-> FALSE]
  /\ OthersIdle

LegacySpec == LegacyInit /\ [][Next]_vars

\* the record loadToken() of manager m yields
StoredRecord(m) == IF cachedToken[m] # NULL THEN cachedToken[m]
                   ELSE LoadResult(file[tokenFile[m]])

\* manager m holds a bearer credential but no renewal credential
NoRenewalCredential(m) ==
  /\ StoredRecord(m) # NULL
  /\ StoredRecord(m).token # Absent
  /\ StoredRecord(m).refreshToken = Absent

\* C15 (as stated): a 401/403 answer to a request whose manager holds no
\* renewal credential is fatal: in that step the request ends with the
\* 'Access Token Expired' error, or it awaits a closure of its own manager
\* that is still loading that record (and will post nothing); it is not
\* left waiting for a renewal that can send it again.
C15_NoRenewalCredentialIsFatal ==
  [][\A r \in Requests, st \in {401, 403} :
        (/\ req[r].pc = "sent" /\ ~req[r].retry
         /\ NoRenewalCredential(req[r].mgr)
         /\ ReqResponse(r, st))
        => \/ req'[r].pc = "done" /\ req'[r].result = "AccessTokenExpired"
           \/ /\ req'[r].pc = "awaitRenew"
              /\ drv'[req'[r].promise].mgr = req[r].mgr
              /\ drv'[req'[r].promise].pc = "reading"
              /\ drv'[req'[r].promise].sample.refreshToken = Absent]_vars

\* C16: an answer other than 401/403 that is a failure (another 4xx, a
\* 5xx, a network failure) ends the request in that step with the error
\* the call produced, on the first send and on the retry alike: nothing is
\* sent again, no renewal is started or joined, store and cache are
\* unchanged.
C16_OtherErrorsPassThrough ==
  [][\A r \in Requests, st \in RequestStatuses \ {200, 401, 403} :
        (req[r].pc = "sent" /\ ReqResponse(r, st))
        => /\ req'[r].pc = "done"
           /\ req'[r].result = "rawError"
           /\ \A q \in Requests : q # r => req'[q] = req[q]
           /\ UNCHANGED <<cachedToken, file, refreshTokenPromise, drv, exp>>]_vars

\* a request ended with the error of the call
C16_Witness ==
  \E r \in Requests : req[r].pc = "done" /\ req[r].result = "rawError"

C17_FirstSendCarriesCurrentBearer ==
  [][\A r \in Requests, m \in Managers :
       (RequireTokenNow(m) # Absent /\ ReqViaClient(r, m))
         => req'[r].hdr = RequireTokenNow(m)]_vars


\* what a loadToken() that starts now on manager m resolves to
LoadTokenNow(m) ==
  IF cachedToken[m] # NULL THEN cachedToken[m] ELSE LoadResult(file[tokenFile[m]])

\* C19 (as stated): while the last write to a store is a saveToken (no
\* write or clear since), a loadToken on the manager that wrote it yields
\* the record that was written, field by field.
C19_ReadsWhatWasWritten ==
  \A m \in Managers :
     ~HasNoToken(file[tokenFile[m]]) => LoadTokenNow(m) = file[tokenFile[m]]


\* the serialisation alone: when nothing overlaps the write, both the
\* writing manager and a fresh manager read back every field as written
SequentialRoundTrip ==
  trip.pc = "loaded"
     => \A k \in Fields : Get(trip.got, k) = Get(trip.token, k)

SequentialRoundTrip_Witness ==
  /\ trip.pc = "loaded"
  /\ trip.reader = "fresh"
  /\ trip.token["refreshToken"] = Undefined
  /\ trip.token["panNumber"] = JsNull
  /\ trip.token["token"] = Str("null")


\* the three outcomes of a poll, read off the value it returns
Outcome(result) ==
  IF result.success THEN "Success"
  ELSE IF result.status = Str("TIMEOUT") THEN "Timeout"
  ELSE "Failure"

\* C20: whatever the probes answer (pending, success, failure, malformed,
\* raised error) and whatever maxAttempts is, a poll never raises: it is
\* probing or waiting, or it has returned a value that is exactly one of
\* Success, Failure and Timeout; while it has not returned it can go on,
\* and every step brings it closer to returning.
C20_Shape ==
  poll.pc # "unused" =>
     /\ poll.pc \in {"probing", "waiting", "returned"}
     /\ poll.pc = "returned" =>
          /\ poll.result # NoResult
          /\ Outcome(poll.result) \in {"Success", "Failure", "Timeout"}
          /\ Outcome(poll.result) = "Success" <=> poll.result.success
          /\ Outcome(poll.result) = "Timeout" <=> poll.result = TimeoutResult
     /\ poll.pc # "returned" => ENABLED PollNext

\* attempts and waits a poll still has before it
PollRank ==
  IF poll.pc = "unused" THEN 2 * MaxAttempts + 3
  ELSE IF poll.pc = "probing" THEN 2 * (poll.maxAttempts - poll.attempt) + 2
  ELSE IF poll.pc = "waiting" THEN 2 * (poll.maxAttempts - poll.attempt) + 1
  ELSE 0

C20_PollNeverRaises ==
  /\ []C20_Shape
  /\ [][PollNext => PollRank' < PollRank]_vars

\* a poll two of whose probes ended in the catch block and that returned
\* Failure from the third
C20_Witness ==
  /\ poll.pc = "returned"
  /\ poll.caught >= 2
  /\ poll.probes = 3
  /\ Outcome(poll.result) = "Failure"


\* C21: a poll never probes more than maxAttempts times, whatever mix of
\* pending answers and raised errors it meets: the probes made so far are the
\* loop counter, and a probe that ends in the catch block leaves the counter
\* as a pending answer does, without returning.
C21_ProbesBounded ==
  /\ [](poll.pc # "unused" =>
          /\ poll.probes <= poll.maxAttempts
          /\ poll.caught <= poll.probes
          /\ poll.pc \in {"probing", "waiting"} => poll.probes = poll.attempt)
  /\ [][PollError =>
          /\ poll'.pc = "waiting"
          /\ poll'.attempt = poll.attempt
          /\ poll'.probes = poll.probes
          /\ poll'.result = NoResult]_vars

\* a poll that used all its probes, one of them on a raised error and one on
\* a pending answer
C21_Witness ==
  /\ poll.pc = "returned"
  /\ poll.maxAttempts = 3
  /\ poll.probes = 3
  /\ poll.caught >= 1
  /\ poll.waits > poll.caught

\* the raw payload a poll attaches to a terminal result
Payload(kind, body) == IF kind = "payment" THEN body.data ELSE MandateData(body)

\* C22: when the answer to the k-th probe is the first terminal one, the
\* poll returns in that very step, after k probes, with the classification
\* of that answer and its payload; a poll that has returned does nothing more.
C22_ReturnsAtFirstTerminal ==
  /\ [][\A body \in PaymentBodies \cup MandateBodies :
          (/\ PollAnswer(body)
           /\ Pass(poll.kind, body) \notin {PassPending, PassRaise})
          => /\ poll'.pc = "returned"
             /\ poll'.probes = poll.attempt
             /\ poll'.probes = poll.probes
             /\ poll'.waits = poll.probes - 1
             /\ poll'.result.data = Payload(poll.kind, body)
             /\ poll'.result.success = Pass(poll.kind, body).success
             /\ Outcome(poll'.result) \in {"Success", "Failure"}]_vars
  /\ [](poll.pc = "returned" => ~ ENABLED PollNext)

\* pending, pending, then an approved payment: Success after three probes
C22_Witness ==
  /\ poll.pc = "returned"
  /\ poll.kind = "payment"
  /\ poll.probes = 3
  /\ poll.caught = 0
  /\ poll.maxAttempts > poll.probes
  /\ Outcome(poll.result) = "Success"
  /\ "100|" \in poll.result.data.marks

\* C23: a poll none of whose probes was terminal returns Timeout after
\* exactly maxAttempts probes and raises nothing; with maxAttempts = 1 that
\* is one probe.
C23_TimeoutAfterMaxAttempts ==
  /\ [](poll.pc = "returned" /\ Outcome(poll.result) = "Timeout"
          => poll.probes = poll.maxAttempts)
  /\ [](poll.pc # "unused" => poll.pc # "raised")
  /\ [][(PollWaitDone /\ poll.probes = poll.maxAttempts)
          => poll'.pc = "returned" /\ poll'.result = TimeoutResult
             /\ poll'.probes = poll.maxAttempts]_vars
  /\ [][(PollWaitDone /\ poll.probes < poll.maxAttempts)
          => poll'.pc = "probing"]_vars

\* a single pending probe of a mandate, then Timeout
C23_Witness ==
  /\ poll.pc = "returned"
  /\ poll.kind = "mandate"
  /\ poll.maxAttempts = 1
  /\ poll.probes = 1
  /\ poll.caught = 0
  /\ Outcome(poll.result) = "Timeout"


\* C24: every caller shows a Timeout as 'pending', never as a failure; it
\* shows a failure only for a result that a probe classified as Failure
\* (payment REJECTED, mandate FAILED or REJECTED), and success only for a
\* Success.
C24_TimeoutShownAsPending ==
  poll.pc = "rendered" =>
     /\ Outcome(poll.result) = "Timeout" => poll.shown = "Pending"
     /\ poll.shown = "Failed" =>
          /\ Outcome(poll.result) = "Failure"
          /\ poll.result.status \in {Str("REJECTED"), Str("FAILED")}
          /\ poll.probes >= 1
     /\ poll.shown = "Success" <=> Outcome(poll.result) = "Success"

\* the mandate set-up after a poll that used all its probes without a
\* terminal answer
C24_Witness ==
  /\ poll.pc = "rendered"
  /\ poll.caller = "setupBasketMandate"
  /\ poll.probes = MaxAttempts
  /\ Outcome(poll.result) = "Timeout"
  /\ poll.shown = "Pending"


\* C25: the mandate poll returns Success exactly for the statuses RECEIVED
\* BY EXCHANGE, APPROVED and UNDER PROCESSING, Failure exactly for FAILED and
\* REJECTED, and waits for every other status (NEW, none); the status comes
\* back in the result and no status is classified twice.
C25_MandateClassification ==
  [][\A body \in MandateBodies :
       (poll.pc = "probing" /\ poll.kind = "mandate" /\ PollAnswer(body))
       => LET st == mandateStatus(body)
              ok == st \in {Str("RECEIVED BY EXCHANGE"), Str("APPROVED"),
                            Str("UNDER PROCESSING")}
              ko == st \in {Str("FAILED"), Str("REJECTED")}
          IN  /\ ~(ok /\ ko)
              /\ ok <=> (poll'.pc = "returned" /\ Outcome(poll'.result) = "Success")
              /\ ko <=> (poll'.pc = "returned" /\ Outcome(poll'.result) = "Failure")
              /\ (st \in {Str("NEW"), Undefined}) <=> poll'.pc = "waiting"
              /\ poll'.pc = "returned" => poll'.result.status = st]_vars

\* a mandate seen as NEW, then as UNDER PROCESSING
C25_Witness ==
  /\ poll.pc = "returned"
  /\ poll.kind = "mandate"
  /\ poll.waits >= 1
  /\ poll.caught = 0
  /\ poll.result.status = Str("UNDER PROCESSING")
  /\ Outcome(poll.result) = "Success"

\* the markers of the status string of a payment answer (none when the
\* answer has no such string)
Markers(body) ==
  IF body = JsNull THEN {}
  ELSE IF body.data \in {Undefined, JsNull, Num(7)} THEN {}
  ELSE body.data.marks

\* C26 (as stated): the payment poll classifies an answer by the marker of
\* its status string alone: Success exactly when the approved marker is
\* there, Failure exactly when the rejected marker is there, pending
\* otherwise, whatever the other fields of the answer are.  (Answers with
\* both markers are left aside.)
C26_MarkerAlone ==
  [][\A body \in PaymentBodies :
       (/\ poll.pc = "probing"
        /\ poll.kind = "payment"
        /\ PollAnswer(body)
        /\ Cardinality(Markers(body)) <= 1)
       => /\ ("100|" \in Markers(body))
               <=> (poll'.pc = "returned" /\ Outcome(poll'.result) = "Success")
          /\ ("101|" \in Markers(body))
               <=> (poll'.pc = "returned" /\ Outcome(poll'.result) = "Failure")
          /\ (Markers(body) = {}) <=> poll'.pc = "waiting"]_vars


\* C27 (as stated): a poll makes no timed wait after its last permitted
\* probe: when it has returned after p >= 1 probes it has waited exactly
\* p - 1 times, so with maxAttempts = 1 it has not waited at all.
C27_NoWaitAfterLastProbe ==
  (poll.pc = "returned" /\ poll.probes >= 1) => poll.waits = poll.probes - 1


\* the errors with which the Request Executor gives a session up
FatalResults == {"SessionExpired", "AccessTokenExpired"}

\* C28: a poll swallows every error of a probe, the executor's fatal
\* session errors included: the rejected probe only leads to the wait, the
\* poll never raises and never returns before its last attempt unless a
\* probe was answered with a terminal result; with every probe rejected it
\* returns Timeout after maxAttempts probes.
C28_FatalErrorsSwallowed ==
  /\ [][ProbeRejected =>
          /\ poll'.pc = "waiting"
          /\ poll'.result = NoResult
          /\ poll'.probes = poll.probes]_vars
  /\ [](poll.pc # "unused" => poll.pc \in {"probing", "waiting", "returned"})
  /\ [](poll.pc = "returned" /\ poll.caught = poll.probes
          => /\ Outcome(poll.result) = "Timeout"
             /\ poll.probes = poll.maxAttempts)

\* the first probe ended with Session Expired and the store cleared, the
\* second with Access Token Expired, and the poll returned Timeout
C28_Witness ==
  /\ poll.pc = "returned"
  /\ poll.probes = 2
  /\ req[1].result = "SessionExpired"
  /\ file[tokenFile[PollClient]] = EmptyObj
  /\ req[2].result = "AccessTokenExpired"
  /\ Outcome(poll.result) = "Timeout"


\* C30 (as stated): when several manager instances serve one store, a
\* completed logout on one of them is seen by all: while the store is
\* cleared, requireToken() fails on every other instance of that store,
\* also on one that had cached the record before.
C30_LogoutSeenByAllInstances ==
  \A m \in Managers, n \in Managers :
     (/\ LoggedOut(m)
      /\ n # m
      /\ tokenFile[n] = tokenFile[m]
      /\ file[tokenFile[m]] = EmptyObj)
     => RequireTokenNow(n) = Absent


\* C29 (as stated): the record a login wrote is never replaced by a renewal
\* that started before the login: when the store holds the login's record
\* and a renewal that read an earlier record completes its save, the store
\* still holds the login's record.
C29_LoginNotOverwritten ==
  [][\A p \in Drivers :
       (/\ drv[p].pc = "saving"
        /\ li.pc = "done"
        /\ li.mgr = drv[p].mgr
        /\ file[tokenFile[li.mgr]] = LoginResult(tokenFile[li.mgr])
        /\ drv[p].tokenData # LoginResult(tokenFile[li.mgr])
        /\ DrvSaved(p))
       => file'[tokenFile[li.mgr]] = LoginResult(tokenFile[li.mgr])]_vars

====
